---- MODULE Spec2Model ----
(***************************************************************************)
(* build_explanation.py: argument resolution, model loading, and the SHAP  *)
(* and LIME explanation loops of main(), as a state machine.               *)
(*                                                                         *)
(* Python strings that are matched by regular expressions or compared by   *)
(* content (model path, task, model type) are sequences of one-character   *)
(* strings.  Python sequences are 0-based; the operators At and Slice      *)
(* translate the indices.                                                  *)
(***************************************************************************)
EXTENDS Integers, Sequences, FiniteSets, TLC

\* ------------------------------------------------------------------------
\* Bounds of the model
\* ------------------------------------------------------------------------

\* largest validation split explored
MaxN == 5

\* largest number of words in a validation sentence
MaxTok == 3

\* ------------------------------------------------------------------------
\* String literals (as character sequences)
\* ------------------------------------------------------------------------
\* "sst2"
S_sst2 ==
    <<"s", "s", "t", "2">>

\* "mnli"
S_mnli ==
    <<"m", "n", "l", "i">>

\* "stsb"
S_stsb ==
    <<"s", "t", "s", "b">>

\* "imdb"
S_imdb ==
    <<"i", "m", "d", "b">>

\* "teacher_"
S_teacher_ ==
    <<"t", "e", "a", "c", "h", "e", "r", "_">>

\* "student_"
S_student_ ==
    <<"s", "t", "u", "d", "e", "n", "t", "_">>

\* "bert-base-uncased"
S_bert_base_uncased ==
    <<"b", "e", "r", "t", "-", "b", "a", "s", "e", "-", "u", "n", "c", "a", "s", "e", "d">>

\* "distilbert-base-uncased"
S_distilbert_base_uncased ==
    <<"d", "i", "s", "t", "i", "l", "b", "e", "r", "t", "-", "b", "a", "s", "e", "-", "u", "n", "c", "a", "s", "e", "d">>

\* "roberta-base"
S_roberta_base ==
    <<"r", "o", "b", "e", "r", "t", "a", "-", "b", "a", "s", "e">>

\* "distilbert_untrained"
S_distilbert_untrained ==
    <<"d", "i", "s", "t", "i", "l", "b", "e", "r", "t", "_", "u", "n", "t", "r", "a", "i", "n", "e", "d">>

\* "tiny"
S_tiny ==
    <<"t", "i", "n", "y">>

\* Python None (args.model_path not given, re.search without a match);
\* distinct from every character sequence
None ==
    <<"<None>">>

\* a local variable that has not been assigned
Unbound ==
    <<"<unbound>">>

\* the character class [a-zA-Z0-9]
Alnum ==
    {"a", "b", "c", "d", "e", "f", "g", "h", "i", "j", "k", "l", "m", "n", "o", "p", "q", "r", "s", "t", "u", "v", "w", "x", "y", "z",
     "A", "B", "C", "D", "E", "F", "G", "H", "I", "J", "K", "L", "M", "N", "O", "P", "Q", "R", "S", "T", "U", "V", "W", "X", "Y", "Z",
     "0", "1", "2", "3", "4", "5", "6", "7", "8", "9"}

\* ------------------------------------------------------------------------
\* Command lines explored
\* ------------------------------------------------------------------------
\* --model_path teacher_bert-base-uncased_sst2.pt
P_teacher_bert_sst2 ==
    <<"t", "e", "a", "c", "h", "e", "r", "_", "b", "e", "r", "t", "-", "b", "a", "s", "e", "-", "u", "n", "c", "a", "s", "e", "d", "_", "s", "s", "t", "2", ".", "p", "t">>

\* --model_path student_distilbert-base-uncased_sst2.pt
P_student_distil_sst2 ==
    <<"s", "t", "u", "d", "e", "n", "t", "_", "d", "i", "s", "t", "i", "l", "b", "e", "r", "t", "-", "b", "a", "s", "e", "-", "u", "n", "c", "a", "s", "e", "d", "_", "s", "s", "t", "2", ".", "p", "t">>

\* --model_path ckpt_v2/teacher_roberta-base_mnli.pt
P_teacher_roberta_mnli ==
    <<"c", "k", "p", "t", "_", "v", "2", "/", "t", "e", "a", "c", "h", "e", "r", "_", "r", "o", "b", "e", "r", "t", "a", "-", "b", "a", "s", "e", "_", "m", "n", "l", "i", ".", "p", "t">>

\* --model_path student_bert-base-uncased_stsb.pt
P_student_bert_stsb ==
    <<"s", "t", "u", "d", "e", "n", "t", "_", "b", "e", "r", "t", "-", "b", "a", "s", "e", "-", "u", "n", "c", "a", "s", "e", "d", "_", "s", "t", "s", "b", ".", "p", "t">>

\* --model_path model_sst2.pt
P_plain_sst2 ==
    <<"m", "o", "d", "e", "l", "_", "s", "s", "t", "2", ".", "p", "t">>

\* --model_path student_distilbert-base-uncased_best
P_student_distil_noext ==
    <<"s", "t", "u", "d", "e", "n", "t", "_", "d", "i", "s", "t", "i", "l", "b", "e", "r", "t", "-", "b", "a", "s", "e", "-", "u", "n", "c", "a", "s", "e", "d", "_", "b", "e", "s", "t">>

\* --model_path teacher_bert-base-uncased_imdb.pt
P_teacher_bert_imdb ==
    <<"t", "e", "a", "c", "h", "e", "r", "_", "b", "e", "r", "t", "-", "b", "a", "s", "e", "-", "u", "n", "c", "a", "s", "e", "d", "_", "i", "m", "d", "b", ".", "p", "t">>

\* --model_path student_tiny_sst2.pth
P_student_tiny_sst2 ==
    <<"s", "t", "u", "d", "e", "n", "t", "_", "t", "i", "n", "y", "_", "s", "s", "t", "2", ".", "p", "t", "h">>

ModelPaths ==
    {None, P_teacher_bert_sst2,
     P_student_distil_sst2,
     P_teacher_roberta_mnli,
     P_student_bert_stsb,
     P_plain_sst2,
     P_student_distil_noext,
     P_teacher_bert_imdb,
     P_student_tiny_sst2}

\* values given to --task (the default is "sst2")
TaskArgs ==
    {S_sst2, S_stsb, S_imdb}

\* choices of --exp_type
ExpTypes ==
    {"lime", "shap", "all"}

\* ------------------------------------------------------------------------
\* Python sequence helpers
\* ------------------------------------------------------------------------

SetMin(S) ==
    CHOOSE x \in S : \A y \in S : x <= y

SetMax(S) ==
    CHOOSE x \in S : \A y \in S : y <= x

\* seq[a:b] for 0 <= a <= b
Slice(seq, a, b) ==
    SubSeq(seq, a + 1, IF b < Len(seq) THEN b ELSE Len(seq))

\* seq[j]; the caller checks InRange first (IndexError otherwise)
At(seq, j) ==
    seq[j + 1]

InRange(seq, j) ==
    j >= 0 /\ j < Len(seq)

\* str.startswith
StartsWith(str, prefix) ==
    /\ Len(prefix) <= Len(str)
    /\ SubSeq(str, 1, Len(prefix)) = prefix

\* ------------------------------------------------------------------------
\* The regular expressions of main()
\* ------------------------------------------------------------------------

\* ends e of the group of  _([a-zA-Z0-9]+)\.pt  when the "_" is at i
TaskGroupEnds(path, i) ==
    {e \in (i + 1)..(Len(path) - 3) :
        /\ \A k \in (i + 1)..e : path[k] \in Alnum
        /\ path[e + 1] = "."
        /\ path[e + 2] = "p"
        /\ path[e + 3] = "t"}

\* re.search(r"_([a-zA-Z0-9]+)\.pt", path): group(1) of the leftmost
\* match, or None
match_task(path) ==
    LET starts == {i \in 1..Len(path) :
                      path[i] = "_" /\ TaskGroupEnds(path, i) # {}}
    IN  IF starts = {} THEN None
        ELSE LET i == SetMin(starts)
             IN  SubSeq(path, i + 1, SetMax(TaskGroupEnds(path, i)))

\* positions of the closing "_" of  lit(.+)_  when lit starts at i
PrefixGroupEnds(lit, path, i) ==
    {e \in (i + Len(lit) + 1)..Len(path) :
        /\ path[e] = "_"
        /\ \A k \in (i + Len(lit))..(e - 1) : path[k] # "\n"}

\* re.search(lit + r"(.+)_", path): group(1) of the leftmost match with
\* the greedy group, or None
match_prefix(lit, path) ==
    LET starts == {i \in 1..Len(path) :
                      /\ i + Len(lit) - 1 <= Len(path)
                      /\ SubSeq(path, i, i + Len(lit) - 1) = lit
                      /\ PrefixGroupEnds(lit, path, i) # {}}
    IN  IF starts = {} THEN None
        ELSE LET i == SetMin(starts)
             IN  SubSeq(path, i + Len(lit),
                        SetMax(PrefixGroupEnds(lit, path, i)) - 1)

\* ResolvedTask with the --task value always winning over the path
ResolvedTaskBug(path, t) ==
    t

\* args.task after lines 103-107: re.search raises TypeError on None and
\* the handler leaves args.task alone
ResolvedTask(path, t) ==
    IF path = None THEN t
    ELSE IF match_task(path) # None THEN match_task(path)
    ELSE t

\* re.search(r"teacher_(.+)_", args.model_path)
match_teacher(path) ==
    match_prefix(S_teacher_, path)

\* re.search(r"student_(.+)_", args.model_path)
match_student(path) ==
    match_prefix(S_student_, path)

\* ------------------------------------------------------------------------
\* Tasks and models
\* ------------------------------------------------------------------------

\* keys of GLUE_CONFIGS (load_glue), restricted to the tasks main() names
GLUE_CONFIGS ==
    {S_sst2, S_mnli, S_stsb}

\* 3 if args.task.startswith("mnli") else 1 if args.task=="stsb" else 2
NumLabels(t) ==
    IF StartsWith(t, S_mnli) THEN 3
    ELSE IF t = S_stsb THEN 1
    ELSE 2

\* num_labels of the debug model
DebugNumLabels == 2

\* checkpoints AutoModelForSequenceClassification.from_pretrained resolves
KnownModels ==
    {S_bert_base_uncased, S_distilbert_base_uncased, S_roberta_base}

\* model.base_model_prefix of the class from_pretrained instantiates
base_model_prefix(name) ==
    IF name = S_bert_base_uncased THEN "bert"
    ELSE IF name = S_distilbert_base_uncased THEN "distilbert"
    ELSE "roberta"

\* predict_func: inputs.pop("token_type_ids") unless the model is BERT
ShapPopsTokenTypeIds(name) ==
    base_model_prefix(name) # "bert"

\* run_lime.predictor: inputs.pop("token_type_ids") unless args.is_teacher
LimePopsTokenTypeIds(teacher) ==
    ~teacher

\* model(**inputs): DistilBERT's forward has no token_type_ids parameter
ForwardRaises(name, popped) ==
    ~popped /\ base_model_prefix(name) = "distilbert"

\* logits[:, 1]
PredictColumn == 1

\* ------------------------------------------------------------------------
\* Validation data and the explainers
\* ------------------------------------------------------------------------

\* sentence of validation example i (0-based): a sequence of words, each
\* word tagged with its example and position
Sentence(i) ==
    [k \in 1..((i % MaxTok) + 1) |-> <<i, k>>]

\* the raw validation split returned by train_and_eval_split, by column
ValSplit(n) ==
    [sentence |-> [i \in 1..n |-> Sentence(i - 1)],
     label    |-> [i \in 1..n |-> (i - 1) % 2]]

\* the empty token SHAP's text masker puts at both ends of a text
Special ==
    <<0 - 1, 0>>

\* the attribution an explainer run with the given seed gives a token
Score(word, seed) ==
    IF word = Special THEN 0 ELSE word[1] + 2 * word[2] + seed

\* tokens of one text as SHAP reports them
ShapTokens(text) ==
    <<Special>> \o text \o <<Special>>

\* explainer(texts_): one row of data, values and base_values per text
shap_explainer(texts_, seed) ==
    [data        |-> [j \in 1..Len(texts_) |-> ShapTokens(texts_[j])],
     values      |-> [j \in 1..Len(texts_) |->
                        [k \in 1..Len(ShapTokens(texts_[j])) |->
                            Score(ShapTokens(texts_[j])[k], seed)]],
     base_values |-> [j \in 1..Len(texts_) |-> seed]]

\* num_features of explain_instance
num_features == 20

\* explain_instance(...).as_list(): (word, weight) pairs by decreasing
\* weight, at most num_features of them
lime_as_list(text, seed) ==
    [k \in 1..(IF Len(text) < num_features THEN Len(text) ELSE num_features)
        |-> <<text[Len(text) + 1 - k], Score(text[Len(text) + 1 - k], seed)>>]

\* DebugSize off by one
DebugSizeBug ==
    4 + 1

\* val_raw_dataset[:4] of the debug mode
DebugSize == 4

\* [{key: value[i] for key, value in val_raw_dataset.items()} for i in ...]
Rows(cols) ==
    [i \in 1..Len(cols.sentence) |-> [key \in DOMAIN cols |-> cols[key][i]]]

\* json.dump of a result mapping: an object whose keys are the decimal
\* strings of the integer keys
json_dump(results) ==
    {<<ToString(k), results[k]>> : k \in DOMAIN results}

\* RunsShap without the "all" case
RunsShapBug(e) ==
    e = "shap"

\* args.exp_type == "all" or args.exp_type == "shap"
RunsShap(e) ==
    e = "all" \/ e = "shap"

\* args.exp_type == "all" or args.exp_type == "lime"
RunsLime(e) ==
    e = "all" \/ e = "lime"

\* bsize raised without guarding the inner loop
bsizeBug ==
    1 + 1

\* run_shap: batch size
bsize == 1

\* ShapKey without the batch offset
ShapKeyBug(start, j) ==
    j

\* run_shap: key of the record of the j-th text of the batch
ShapKey(start, j) ==
    start + j

\* run_shap: the record stored for the j-th text of the batch
ShapRecord(texts_, labels_, res, j) ==
    [sentence     |-> At(texts_, j),
     tokens       |-> At(res.data, j),
     attributions |-> At(res.values, j),
     label        |-> At(labels_, j),
     base_value   |-> At(res.base_values, j)]

\* LimeRecord with the attributions taken in the opposite order
LimeRecordBug(t, exp_) ==
    [sentence     |-> t.sentence,
     tokens       |-> [k \in 1..Len(exp_) |-> exp_[k][1]],
     attributions |-> [k \in 1..Len(exp_) |-> exp_[Len(exp_) + 1 - k][2]],
     label        |-> t.label]

\* run_lime: the record stored for row t
LimeRecord(t, exp_) ==
    [sentence     |-> t.sentence,
     tokens       |-> [k \in 1..Len(exp_) |-> exp_[k][1]],
     attributions |-> [k \in 1..Len(exp_) |-> exp_[k][2]],
     label        |-> t.label]

\* ------------------------------------------------------------------------
\* State
\* ------------------------------------------------------------------------

VARIABLES
    model_path,       \* args.model_path, or None
    is_teacher,       \* args.is_teacher
    task,             \* args.task
    task_arg,         \* the value of --task as parsed
    exp_type,         \* args.exp_type
    debug,            \* args.debug
    val_split,        \* raw validation split of the task (by column)
    seed,             \* randomness of the explainers in this run
    pc,               \* position of main()
    error,            \* the exception that ended the run, or "none"
    caught,           \* exceptions caught and printed, in order
    model_type,       \* local model_type, or Unbound
    model,            \* name of the checkpoint behind local model, or Unbound
    num_labels,       \* num_labels the model was created with (0: no model)
    loaded,           \* load_state_dict(torch.load(model_path)) succeeded
    val_raw_dataset,  \* local val_raw_dataset (by column)
    made_dirs,        \* model types whose output directory exists
    cur_start,        \* run_shap: cur_start
    shap_results,     \* run_shap: shap_results
    explained,        \* example indices passed to the SHAP explainer, in order
    lime_rows,        \* run_lime: the rows iterated
    lime_i,           \* run_lime: number of rows consumed
    lime_results,     \* run_lime: lime_results
    shap_file,        \* contents dumped to ..._shap.json, one per dump
    lime_file         \* contents dumped to ..._lime.json, one per dump

vars ==
    <<model_path, is_teacher, task, task_arg, exp_type, debug, val_split, seed, pc,
      error, caught, model_type, model, num_labels, loaded, val_raw_dataset,
      made_dirs, cur_start, shap_results, explained, lime_rows, lime_i,
      lime_results, shap_file, lime_file>>

args ==
    <<model_path, task, task_arg, exp_type, debug, val_split, seed>>

modelVars ==
    <<model_type, model, num_labels, loaded>>

shapVars ==
    <<cur_start, shap_results, explained, shap_file>>

limeVars ==
    <<lime_rows, lime_i, lime_results, lime_file>>

Seeds ==
    {0, 1}

Init ==
    /\ model_path \in ModelPaths
    /\ is_teacher \in BOOLEAN
    /\ task \in TaskArgs
    /\ task_arg = task
    /\ exp_type \in ExpTypes
    /\ debug \in BOOLEAN
    /\ val_split \in {ValSplit(n) : n \in 0..MaxN}
    /\ seed \in Seeds
    /\ pc = "resolve_task"
    /\ error = "none"
    /\ caught = <<>>
    /\ model_type = Unbound
    /\ model = Unbound
    /\ num_labels = 0
    /\ loaded = FALSE
    /\ val_raw_dataset = ValSplit(0)
    /\ made_dirs = {}
    /\ cur_start = 0
    /\ shap_results = <<>>
    /\ explained = <<>>
    /\ lime_rows = <<>>
    /\ lime_i = 0
    /\ lime_results = <<>>
    /\ shap_file = <<>>
    /\ lime_file = <<>>

\* an uncaught exception ends main()
Raise(e) ==
    /\ pc' = "crashed"
    /\ error' = e

\* ------------------------------------------------------------------------
\* main(): argument and model resolution
\* ------------------------------------------------------------------------

\* try: match = re.search(...); args.task = ... except TypeError: print
ResolveTask ==
    /\ pc = "resolve_task"
    /\ caught' = IF model_path = None THEN Append(caught, "TypeError")
                 ELSE caught
    /\ task' = ResolvedTask(model_path, task)
    /\ pc' = "assert_task"
    /\ UNCHANGED <<model_path, is_teacher, task_arg, exp_type, debug, val_split, seed,
                   error, modelVars, val_raw_dataset, made_dirs, shapVars,
                   limeVars>>

\* assert args.task in GLUE_CONFIGS
AssertTask ==
    /\ pc = "assert_task"
    /\ IF task \in GLUE_CONFIGS
       THEN pc' = "load_model" /\ error' = error
       ELSE Raise("AssertionError")
    /\ UNCHANGED <<args, is_teacher, caught, modelVars, val_raw_dataset,
                   made_dirs, shapVars, limeVars>>

\* if args.debug: untrained distilbert-base-uncased
LoadDebugModel ==
    /\ pc = "load_model"
    /\ debug
    /\ model' = S_distilbert_base_uncased
    /\ num_labels' = DebugNumLabels
    /\ model_type' = S_distilbert_untrained
    /\ loaded' = FALSE
    /\ pc' = "to_device"
    /\ UNCHANGED <<args, is_teacher, error, caught, val_raw_dataset,
                   made_dirs, shapVars, limeVars>>

\* else: try: match_teacher / match_student ... (lines 116-123); a
\* TypeError of re.search is caught at line 132, an AttributeError of
\* None.group is not caught
ResolveModelType ==
    /\ pc = "load_model"
    /\ ~debug
    /\ IF model_path = None
       THEN /\ caught' = Append(caught, "TypeError")
            /\ pc' = "to_device"
            /\ UNCHANGED <<model_type, is_teacher, error>>
       ELSE IF match_teacher(model_path) # None
       THEN /\ model_type' = match_teacher(model_path)
            /\ is_teacher' = TRUE
            /\ pc' = "from_pretrained"
            /\ UNCHANGED <<caught, error>>
       ELSE IF match_student(model_path) # None
       THEN /\ model_type' = match_student(model_path)
            /\ is_teacher' = FALSE
            /\ pc' = "from_pretrained"
            /\ UNCHANGED <<caught, error>>
       ELSE /\ Raise("AttributeError")
            /\ UNCHANGED <<model_type, is_teacher, caught>>
    /\ UNCHANGED <<args, model, num_labels, loaded, val_raw_dataset,
                   made_dirs, shapVars, limeVars>>

\* outcomes of model.load_state_dict(torch.load(args.model_path))
LoadOutcomes ==
    {"ok", "FileNotFoundError", "RuntimeError"}

\* num_labels = ...; model = from_pretrained(...); model.load_state_dict(...)
\* with the except clauses of lines 128-131
LoadCheckpoint ==
    /\ pc = "from_pretrained"
    /\ num_labels' = NumLabels(task)
    /\ IF model_type \notin KnownModels
       THEN /\ Raise("OSError")
            /\ UNCHANGED <<model, loaded, caught>>
       ELSE /\ model' = model_type
            /\ \E outcome \in LoadOutcomes :
                  /\ loaded' = (outcome = "ok")
                  /\ caught' = IF outcome = "ok" THEN caught
                               ELSE Append(caught, outcome)
            /\ pc' = "to_device"
            /\ error' = error
    /\ UNCHANGED <<args, is_teacher, model_type, val_raw_dataset, made_dirs,
                   shapVars, limeVars>>

\* model.to(device) ... val_raw_dataset = val_raw_dataset[:4] if debug
LoadData ==
    /\ pc = "to_device"
    /\ IF model = Unbound
       THEN /\ Raise("UnboundLocalError")
            /\ UNCHANGED val_raw_dataset
       ELSE /\ val_raw_dataset' =
                  IF debug
                  THEN [key \in DOMAIN val_split |->
                           Slice(val_split[key], 0, DebugSize)]
                  ELSE val_split
            /\ pc' = "make_dirs"
            /\ error' = error
    /\ UNCHANGED <<args, is_teacher, caught, modelVars, made_dirs, shapVars,
                   limeVars>>

\* os.makedirs(f"explanation_results/{model_type}")
MakeDirs ==
    /\ pc = "make_dirs"
    /\ IF model_type = Unbound
       THEN /\ Raise("UnboundLocalError")
            /\ UNCHANGED made_dirs
       ELSE /\ made_dirs' = made_dirs \cup {model_type}
            /\ pc' = "shap_dispatch"
            /\ error' = error
    /\ UNCHANGED <<args, is_teacher, caught, modelVars, val_raw_dataset,
                   shapVars, limeVars>>

\* ------------------------------------------------------------------------
\* run_shap and its dump
\* ------------------------------------------------------------------------

\* if args.exp_type == "all" or args.exp_type == "shap": enter run_shap
ShapDispatch ==
    /\ pc = "shap_dispatch"
    /\ IF RunsShap(exp_type)
       THEN /\ cur_start' = 0
            /\ shap_results' = <<>>
            /\ pc' = "shap_loop"
       ELSE /\ pc' = "lime_dispatch"
            /\ UNCHANGED <<cur_start, shap_results>>
    /\ UNCHANGED <<args, is_teacher, error, caught, modelVars,
                   val_raw_dataset, made_dirs, explained, shap_file,
                   limeVars>>

\* one iteration of  while cur_start < len(texts)
ShapBatch ==
    /\ pc = "shap_loop"
    /\ cur_start < Len(val_raw_dataset.sentence)
    /\ LET texts_  == Slice(val_raw_dataset.sentence, cur_start,
                            cur_start + bsize)
           labels_ == Slice(val_raw_dataset.label, cur_start,
                            cur_start + bsize)
           res     == shap_explainer(texts_, seed)
           keys    == {ShapKey(cur_start, j) : j \in 0..(bsize - 1)}
       IN  IF ForwardRaises(model, ShapPopsTokenTypeIds(model))
           THEN /\ Raise("TypeError")
                /\ UNCHANGED <<cur_start, shap_results, explained>>
           ELSE IF ~(PredictColumn < num_labels)
           THEN /\ Raise("IndexError: logits")
                /\ UNCHANGED <<cur_start, shap_results, explained>>
           ELSE IF \E j \in 0..(bsize - 1) : ~InRange(texts_, j)
           THEN /\ Raise("IndexError: batch")
                /\ UNCHANGED <<cur_start, shap_results, explained>>
           ELSE /\ shap_results' =
                      [k \in DOMAIN shap_results \cup keys |->
                          IF k \in keys
                          THEN ShapRecord(texts_, labels_, res,
                                 SetMax({j \in 0..(bsize - 1) :
                                            ShapKey(cur_start, j) = k}))
                          ELSE shap_results[k]]
                /\ explained' = explained \o
                      [j \in 1..Len(texts_) |-> cur_start + j - 1]
                /\ cur_start' = cur_start + bsize
                /\ UNCHANGED <<pc, error>>
    /\ UNCHANGED <<args, is_teacher, caught, modelVars, val_raw_dataset,
                   made_dirs, shap_file, limeVars>>

\* the loop ends: return shap_results; json.dump(shap_results, file1)
ShapWrite ==
    /\ pc = "shap_loop"
    /\ ~(cur_start < Len(val_raw_dataset.sentence))
    /\ shap_file' = Append(shap_file, json_dump(shap_results))
    /\ pc' = "lime_dispatch"
    /\ UNCHANGED <<args, is_teacher, error, caught, modelVars,
                   val_raw_dataset, made_dirs, cur_start, shap_results,
                   explained, limeVars>>

\* ------------------------------------------------------------------------
\* run_lime and its dump
\* ------------------------------------------------------------------------

\* if args.exp_type == "all" or args.exp_type == "lime": the debug
\* dataset is converted to rows, and run_lime starts
LimeDispatch ==
    /\ pc = "lime_dispatch"
    /\ IF RunsLime(exp_type)
       THEN /\ lime_rows' = Rows(val_raw_dataset)
            /\ lime_i' = 0
            /\ lime_results' = <<>>
            /\ pc' = "lime_loop"
       ELSE /\ pc' = "done"
            /\ UNCHANGED <<lime_rows, lime_i, lime_results>>
    /\ UNCHANGED <<args, is_teacher, error, caught, modelVars,
                   val_raw_dataset, made_dirs, shapVars, lime_file>>

\* one iteration of  for i, t in enumerate(dataset)
LimeStep ==
    /\ pc = "lime_loop"
    /\ lime_i < Len(lime_rows)
    /\ LET t    == At(lime_rows, lime_i)
           exp_ == lime_as_list(t.sentence, seed)
       IN  IF ForwardRaises(model, LimePopsTokenTypeIds(is_teacher))
           THEN /\ Raise("TypeError")
                /\ UNCHANGED <<lime_i, lime_results>>
           ELSE /\ lime_results' =
                      (lime_i :> LimeRecord(t, exp_)) @@ lime_results
                /\ lime_i' = lime_i + 1
                /\ UNCHANGED <<pc, error>>
    /\ UNCHANGED <<args, is_teacher, caught, modelVars, val_raw_dataset,
                   made_dirs, shapVars, lime_rows, lime_file>>

\* the loop ends: return lime_results; json.dump(lime_results, file2)
LimeWrite ==
    /\ pc = "lime_loop"
    /\ ~(lime_i < Len(lime_rows))
    /\ lime_file' = Append(lime_file, json_dump(lime_results))
    /\ pc' = "done"
    /\ UNCHANGED <<args, is_teacher, error, caught, modelVars,
                   val_raw_dataset, made_dirs, shapVars, lime_rows, lime_i,
                   lime_results>>

\* ------------------------------------------------------------------------
\* Specifications
\* ------------------------------------------------------------------------

Next ==
    \/ ResolveTask
    \/ AssertTask
    \/ LoadDebugModel
    \/ ResolveModelType
    \/ LoadCheckpoint
    \/ LoadData
    \/ MakeDirs
    \/ ShapDispatch
    \/ ShapBatch
    \/ ShapWrite
    \/ LimeDispatch
    \/ LimeStep
    \/ LimeWrite

Spec ==
    Init /\ [][Next]_vars

\* main() is a sequential program: it keeps running until it returns or
\* an exception ends it
FairSpec ==
    Init /\ [][Next]_vars /\ WF_vars(Next)

\* ------------------------------------------------------------------------
\* Properties
\* ------------------------------------------------------------------------

Range(seq) ==
    {seq[k] : k \in 1..Len(seq)}

ShapReturned ==
    Len(shap_file) >= 1

LimeReturned ==
    Len(lime_file) >= 1

\* the mapping has exactly the keys 0..n-1 of the dataset it was built
\* from, and record i carries sentence and label of example i
KeyedByExample(results) ==
    LET n == Len(val_raw_dataset.sentence)
    IN  /\ DOMAIN results = 0..(n - 1)
        /\ \A i \in 0..(n - 1) :
              /\ results[i].sentence = val_raw_dataset.sentence[i + 1]
              /\ results[i].label = val_raw_dataset.label[i + 1]
              /\ results[i].sentence = val_split.sentence[i + 1]
              /\ results[i].label = val_split.label[i + 1]

\* C1: the mappings returned by run_shap and by run_lime have exactly the
\* keys 0..n-1 for a validation set of n examples, and the record at key i
\* carries the sentence and the label of validation example i.
C1_ResultsKeyedByExample ==
    /\ ShapReturned => KeyedByExample(shap_results)
    /\ LimeReturned => KeyedByExample(lime_results)

C1_Witness ==
    /\ ShapReturned
    /\ LimeReturned
    /\ Len(val_raw_dataset.sentence) >= 3
    /\ DOMAIN shap_results = 0..(Len(val_raw_dataset.sentence) - 1)

\* tokens and attributions of a record line up: same length, attribution k
\* is the score the explainer gave token k, and the tokens are those of
\* the record's own sentence
AlignedRecord(r) ==
    /\ Len(r.tokens) = Len(r.attributions)
    /\ \A k \in 1..Len(r.tokens) :
          /\ r.attributions[k] = Score(r.tokens[k], seed)
          /\ r.tokens[k] = Special \/ r.tokens[k] \in Range(r.sentence)

\* C2: in every record of every result mapping (SHAP or LIME) the tokens
\* list and the attributions list have the same length and order:
\* attribution k is the score of token k of the same example.
C2_TokensAlignWithAttributions ==
    /\ \A i \in DOMAIN shap_results : AlignedRecord(shap_results[i])
    /\ \A i \in DOMAIN lime_results : AlignedRecord(lime_results[i])

C2_Witness ==
    /\ \E i \in DOMAIN shap_results : Len(shap_results[i].tokens) >= 4
    /\ \E i \in DOMAIN lime_results :
          /\ Len(lime_results[i].attributions) >= 2
          /\ lime_results[i].attributions[1] # lime_results[i].attributions[2]

LimeStarted ==
    pc = "lime_loop" \/ lime_i > 0 \/ LimeReturned

\* C3: the SHAP file is written only for exp_type shap or all and the LIME
\* file only for lime or all, and a run that returns has written each
\* requested file; with all, the SHAP file is written before the LIME run
\* starts; each file is written once, after every example of the
\* technique has been processed.
C3_FilesFollowExpType ==
    /\ ShapReturned => exp_type \in {"shap", "all"}
    /\ LimeReturned => exp_type \in {"lime", "all"}
    /\ pc = "done" =>
          /\ exp_type \in {"shap", "all"} => ShapReturned
          /\ exp_type \in {"lime", "all"} => LimeReturned
    /\ (exp_type = "all" /\ LimeStarted) => ShapReturned
    /\ Len(shap_file) <= 1
    /\ Len(lime_file) <= 1
    /\ ShapReturned =>
          /\ Len(explained) = Len(val_raw_dataset.sentence)
          /\ Cardinality(shap_file[1]) = Len(val_raw_dataset.sentence)
    /\ LimeReturned =>
          /\ lime_i = Len(val_raw_dataset.sentence)
          /\ Cardinality(lime_file[1]) = Len(val_raw_dataset.sentence)

C3_Witness ==
    /\ exp_type = "all"
    /\ pc = "lime_loop"
    /\ lime_i = 1
    /\ ShapReturned
    /\ Len(val_raw_dataset.sentence) >= 2

\* C4: the task of the run is the group captured by _([a-zA-Z0-9]+)\.pt in
\* the model path when the path matches, and otherwise (no match, or no
\* model path) the value of --task; the run gets past task resolution
\* only when that task is a key of GLUE_CONFIGS.
C4_TaskResolution ==
    /\ pc # "resolve_task" =>
          /\ (model_path # None /\ match_task(model_path) # None)
                => task = match_task(model_path)
          /\ (model_path = None \/ match_task(model_path) = None)
                => task = task_arg
          /\ model_path = P_student_tiny_sst2 => task = S_sst2
          /\ model_path = P_teacher_roberta_mnli => task = S_mnli
          /\ model_path = P_student_distil_noext => task = task_arg
    /\ (pc \notin {"resolve_task", "assert_task"}
          /\ error # "AssertionError") => task \in GLUE_CONFIGS
    /\ error = "AssertionError" => task \notin GLUE_CONFIGS

C4_Witness ==
    /\ pc = "load_model"
    /\ model_path = P_student_bert_stsb
    /\ task_arg = S_imdb
    /\ task = S_stsb

ModelStepDone ==
    /\ pc \notin {"resolve_task", "assert_task", "load_model"}
    /\ error # "AssertionError"

\* C5: outside debug mode the model type is resolved from the model path
\* for every path: the group of teacher_(.+)_ with is_teacher true if that
\* matches, otherwise the group of student_(.+)_ with is_teacher false;
\* model_type is defined whenever the output directory is created.
C5_ModelTypeResolvedForEveryPath ==
    /\ (~debug /\ model_path # None /\ ModelStepDone) =>
          /\ model_type # Unbound
          /\ match_teacher(model_path) # None =>
                model_type = match_teacher(model_path) /\ is_teacher
          /\ match_teacher(model_path) = None =>
                /\ match_student(model_path) # None
                /\ model_type = match_student(model_path)
                /\ ~is_teacher
    /\ made_dirs # {} => model_type # Unbound

LoadFailureCaught ==
    \E k \in 1..Len(caught) :
        /\ caught[k] \in {"FileNotFoundError", "RuntimeError", "TypeError"}
        /\ (k > 1 \/ model_path # None)

\* C6: outside debug mode an explanation file is written only in runs
\* where the checkpoint was loaded into the model: after an exception
\* caught during model loading no explanation is computed and no result
\* file is written.
C6_NoExplanationWithoutCheckpoint ==
    ~debug =>
       /\ (ShapReturned \/ LimeReturned) => loaded
       /\ LoadFailureCaught =>
             /\ Len(explained) = 0
             /\ lime_i = 0
             /\ ~ShapReturned
             /\ ~LimeReturned

ModelCreated ==
    model # Unbound

\* C9: for every accepted task the model of lines 124-125 is created with
\* num_labels 3 for mnli*, 1 for stsb and 2 otherwise, and column 1 of the
\* logits, which the SHAP prediction function selects, exists among the
\* num_labels output columns.
C9_PredictColumnExists ==
    (ModelCreated /\ ~debug /\ task \in GLUE_CONFIGS) =>
       /\ num_labels = (IF SubSeq(task, 1, 4) = S_mnli THEN 3
                        ELSE IF task = S_stsb THEN 1
                        ELSE 2)
       /\ 1 < num_labels

\* C10: for every run the SHAP prediction function and the LIME
\* prediction function make the same decision about removing
\* token_type_ids: both remove it exactly when the model is not BERT.
C10_SameTokenTypeIdsDecision ==
    (ModelCreated /\ ModelStepDone /\ pc # "from_pretrained") =>
       /\ ShapPopsTokenTypeIds(model) = LimePopsTokenTypeIds(is_teacher)
       /\ LimePopsTokenTypeIds(is_teacher)
             = (base_model_prefix(model) # "bert")

InOrder(seq) ==
    \A k \in 1..Len(seq) : seq[k] = k - 1

C7_LoopInvariant ==
    /\ cur_start <= Len(val_raw_dataset.sentence)
    /\ Len(explained) = cur_start
    /\ InOrder(explained)
    /\ DOMAIN shap_results = 0..(cur_start - 1)
    /\ error # "IndexError: batch"
    /\ ShapReturned => cur_start = Len(val_raw_dataset.sentence)
    /\ (ShapReturned /\ Len(val_raw_dataset.sentence) = 0)
          => shap_file[1] = {}

C7_LoopStep ==
    (pc = "shap_loop" /\ cur_start' # cur_start) =>
       /\ cur_start' = cur_start + 1
       /\ explained' = Append(explained, cur_start)

\* C7: the batching loop of run_shap terminates for every finite dataset
\* (the empty one yields an empty mapping), advances cur_start by the
\* batch size each iteration, explains the examples in increasing index
\* order, each exactly once, and never indexes past the end of the batch
\* or of the dataset.
C7_ShapLoopTerminatesInOrder ==
    /\ []C7_LoopInvariant
    /\ [][C7_LoopStep]_vars
    /\ (pc = "shap_loop") ~> (pc # "shap_loop")

C7_Witness ==
    /\ ShapReturned
    /\ Len(explained) >= 3
    /\ explained[3] = 2

FirstFour(seq) ==
    [k \in 1..(IF Len(seq) < 4 THEN Len(seq) ELSE 4) |-> seq[k]]

DebugFileOk(file) ==
    \A d \in Range(file) :
        /\ Cardinality(d) <= 4
        /\ \A kv \in d : kv[1] \in {"0", "1", "2", "3"}

\* C8: in debug mode the run needs no model path: the model is an
\* untrained distilbert-base-uncased with 2 labels, model_type is
\* "distilbert_untrained", the validation data is its first 4 examples,
\* and every result mapping written has at most 4 records with keys in
\* 0..3, on the SHAP path and on the LIME path.
C8_DebugRun ==
    debug =>
       /\ error \notin {"UnboundLocalError", "AttributeError", "OSError"}
       /\ ModelStepDone =>
             /\ model = S_distilbert_base_uncased
             /\ num_labels = 2
             /\ ~loaded
             /\ model_type = S_distilbert_untrained
       /\ (ModelStepDone /\ pc # "to_device") =>
             /\ val_raw_dataset.sentence = FirstFour(val_split.sentence)
             /\ val_raw_dataset.label = FirstFour(val_split.label)
       /\ pc = "lime_loop" => Len(lime_rows) <= 4
       /\ DebugFileOk(shap_file)
       /\ DebugFileOk(lime_file)

C8_Witness ==
    /\ debug
    /\ model_path = None
    /\ Len(val_split.sentence) > 4
    /\ pc = "done"
    /\ ShapReturned
    /\ LimeReturned
    /\ Cardinality(shap_file[1]) = 4
    /\ Cardinality(lime_file[1]) = 4

====
